---- MODULE Spec2Model ----
(***************************************************************************)
(* Model of the loopback client socket of tower-lsp                        *)
(* (src/service/client/socket.rs): the unsplit ClientSocket, its split     *)
(* into RequestStream / ResponseSink, and the collaborators they touch:    *)
(* the mpsc channel behind the Receiver, the Pending registry and the      *)
(* shared ServerState.                                                      *)
(***************************************************************************)
EXTENDS Integers, Sequences, FiniteSets, TLC

\* ------------------------------------------------------------------------
\* Bounds of the model
\* ------------------------------------------------------------------------
MaxReq == 2      \* requests the server logic enqueues over one run
MaxResp == 2     \* responses handed to the Pending registry over one run

VARIABLES
    state,      \* ServerState: the shared lifecycle phase
    chan,       \* shared inner of the mpsc channel: queue, open flag, recv_task
    nextId,     \* number of requests enqueued so far (the last request id)
    pending,    \* Pending registry: ids waited for, responses handed to it
    socket,     \* the unsplit ClientSocket {rx, pending, state}
    stream,     \* the RequestStream half {rx, state}
    sink,       \* the ResponseSink half {pending, state}
    consumer,   \* the task polling the Stream role: running or suspended
    permit,     \* the Sink caller holds an unused Ready(Ok) of poll_ready
    last,       \* the last operation and what it returned
    hist        \* history of the run: what was delivered, observed, handed

vars == <<state, chan, nextId, pending, socket, stream, sink, consumer,
          permit, last, hist>>

\* ------------------------------------------------------------------------
\* Values
\* ------------------------------------------------------------------------
State == {"Initializing", "Running", "Exited"}

Ids == 1 .. MaxReq

\* ids a response may carry: that of the first request, and one no call has
RespIds == {0, 1}

PendingRef == "pending"
StateRef == "state"
NoRef == "-"

PollPending == [kind |-> "Pending", item |-> 0]
ReadyNone == [kind |-> "None", item |-> 0]
ReadySome(r) == [kind |-> "Some", item |-> r]
ReadyOk == [kind |-> "Ok", item |-> 0]
ReadyErr == [kind |-> "Err", item |-> 0]
NoResult == [kind |-> "-", item |-> 0]

\* ------------------------------------------------------------------------
\* futures::channel::mpsc::Receiver<Request>
\* ------------------------------------------------------------------------
\* Receiver::is_terminated: the receiver has let go of the channel
Receiver_is_terminated(rx) == ~rx.inner

\* Receiver::poll_next: pop a message; on an empty queue end the stream if
\* the channel is closed, otherwise register the waker and stay pending
Receiver_poll_next(rx, ch) ==
    IF ~rx.inner
    THEN [res |-> ReadyNone, rx |-> rx, ch |-> ch]
    ELSE IF ch.queue # <<>>
    THEN [res |-> ReadySome(Head(ch.queue)), rx |-> rx,
          ch |-> [ch EXCEPT !.queue = Tail(ch.queue)]]
    ELSE IF ~ch.open
    THEN [res |-> ReadyNone, rx |-> [rx EXCEPT !.inner = FALSE], ch |-> ch]
    ELSE [res |-> PollPending, rx |-> rx,
          ch |-> [ch EXCEPT !.recv_task = TRUE]]

\* Receiver::size_hint
Receiver_size_hint(rx, ch) ==
    IF rx.inner
    THEN IF ch.open THEN <<Len(ch.queue), -1>>
                    ELSE <<Len(ch.queue), Len(ch.queue)>>
    ELSE <<0, 0>>

\* AtomicWaker::wake on recv_task: a registered waker is taken and its task
\* made runnable
Wake(ch) == [ch EXCEPT !.recv_task = FALSE]
Woken(ch, task) == IF ch.recv_task THEN "running" ELSE task

\* ------------------------------------------------------------------------
\* ServerState and Pending
\* ------------------------------------------------------------------------
ServerState_get(ref) == IF ref = StateRef THEN state ELSE "Initializing"

Pending_insert(p, r) ==
    [waiting |-> p.waiting \ {r}, handed |-> Append(p.handed, r)]

Pending_wait(p, r) == [p EXCEPT !.waiting = @ \cup {r}]

\* ------------------------------------------------------------------------
\* ClientSocket
\* ------------------------------------------------------------------------
NoSocket(st) == [st |-> st, rx |-> [inner |-> FALSE], pending |-> NoRef,
                 state |-> NoRef]
NoStream(st) == [st |-> st, rx |-> [inner |-> FALSE], state |-> NoRef]
NoSink(st) == [st |-> st, pending |-> NoRef, state |-> NoRef]

\* a split that wires the stream half to a receiver of its own
ClientSocket_split_FreshRx(self) ==
    [stream |-> [st |-> "live", rx |-> [inner |-> FALSE], state |-> self.state],
     sink |-> [st |-> "live", pending |-> self.pending, state |-> self.state]]

\* a split that gives the sink half a lifecycle state of its own
ClientSocket_split_OwnState(self) ==
    [stream |-> [st |-> "live", rx |-> self.rx, state |-> self.state],
     sink |-> [st |-> "live", pending |-> self.pending, state |-> NoRef]]

ClientSocket_split(self) ==
    [stream |-> [st |-> "live", rx |-> self.rx, state |-> self.state],
     sink |-> [st |-> "live", pending |-> self.pending, state |-> self.state]]

\* a poll that drains the buffer before it honours Exited
ClientSocket_poll_next_DrainFirst(self, ch) ==
    IF (ServerState_get(self.state) = "Exited" /\ ch.queue = <<>>)
       \/ Receiver_is_terminated(self.rx)
    THEN [res |-> ReadyNone, rx |-> self.rx, ch |-> ch]
    ELSE Receiver_poll_next(self.rx, ch)

\* a poll that closes and drains the queue when it short-circuits
ClientSocket_poll_next_Closes(self, ch) ==
    IF ServerState_get(self.state) = "Exited" \/ Receiver_is_terminated(self.rx)
    THEN [res |-> ReadyNone, rx |-> self.rx,
          ch |-> [ch EXCEPT !.queue = <<>>, !.open = FALSE]]
    ELSE Receiver_poll_next(self.rx, ch)

ClientSocket_poll_next(self, ch) ==
    IF ServerState_get(self.state) = "Exited" \/ Receiver_is_terminated(self.rx)
    THEN [res |-> ReadyNone, rx |-> self.rx, ch |-> ch]
    ELSE Receiver_poll_next(self.rx, ch)

\* a termination report that also honours Exited
ClientSocket_is_terminated_OrExited(self) ==
    ServerState_get(self.state) = "Exited" \/ Receiver_is_terminated(self.rx)

ClientSocket_is_terminated(self) == Receiver_is_terminated(self.rx)

ClientSocket_size_hint(self, ch) == Receiver_size_hint(self.rx, ch)

\* a readiness check that forgets the lifecycle state
ClientSocket_poll_ready_NoState(self) ==
    IF Receiver_is_terminated(self.rx) THEN ReadyErr ELSE ReadyOk

\* a readiness check that forgets the exhaustion flag
ClientSocket_poll_ready_NoFlag(self) ==
    IF ServerState_get(self.state) = "Exited" THEN ReadyErr ELSE ReadyOk

ClientSocket_poll_ready(self) ==
    IF ServerState_get(self.state) = "Exited" \/ Receiver_is_terminated(self.rx)
    THEN ReadyErr
    ELSE ReadyOk

\* an accept that hands over only responses somebody waits for
ClientSocket_start_send_Matched(self, p, item) ==
    [res |-> ReadyOk,
     p |-> IF item \in p.waiting THEN Pending_insert(p, item) ELSE p]

ClientSocket_start_send(self, p, item) ==
    [res |-> ReadyOk, p |-> Pending_insert(p, item)]

ClientSocket_poll_flush(self) == ReadyOk

\* a close that fails once the queue is exhausted or the server has exited
ClientSocket_poll_close_Checked(self) ==
    IF ServerState_get(self.state) = "Exited" \/ Receiver_is_terminated(self.rx)
    THEN ReadyErr
    ELSE ReadyOk

ClientSocket_poll_close(self) == ReadyOk

\* ------------------------------------------------------------------------
\* RequestStream
\* ------------------------------------------------------------------------
\* a poll that drains the buffer before it honours Exited
RequestStream_poll_next_DrainFirst(self, ch) ==
    IF (ServerState_get(self.state) = "Exited" /\ ch.queue = <<>>)
       \/ Receiver_is_terminated(self.rx)
    THEN [res |-> ReadyNone, rx |-> self.rx, ch |-> ch]
    ELSE Receiver_poll_next(self.rx, ch)

\* a poll that forgets the lifecycle state
RequestStream_poll_next_NoState(self, ch) ==
    IF Receiver_is_terminated(self.rx)
    THEN [res |-> ReadyNone, rx |-> self.rx, ch |-> ch]
    ELSE Receiver_poll_next(self.rx, ch)

RequestStream_poll_next(self, ch) ==
    IF ServerState_get(self.state) = "Exited" \/ Receiver_is_terminated(self.rx)
    THEN [res |-> ReadyNone, rx |-> self.rx, ch |-> ch]
    ELSE Receiver_poll_next(self.rx, ch)

RequestStream_is_terminated(self) == Receiver_is_terminated(self.rx)

RequestStream_size_hint(self, ch) == Receiver_size_hint(self.rx, ch)

\* ------------------------------------------------------------------------
\* ResponseSink
\* ------------------------------------------------------------------------
\* a readiness check that never refuses
ResponseSink_poll_ready_Always(self) == ReadyOk

\* a readiness check tied to the stream half, as on the unsplit socket
ResponseSink_poll_ready_Coupled(self) ==
    IF ServerState_get(self.state) = "Exited"
       \/ stream.st # "live" \/ Receiver_is_terminated(stream.rx)
    THEN ReadyErr
    ELSE ReadyOk

ResponseSink_poll_ready(self) ==
    IF ServerState_get(self.state) = "Exited"
    THEN ReadyErr
    ELSE ReadyOk

\* an accept that puts the newest response in front of the older ones
ResponseSink_start_send_Front(self, p, item) ==
    [res |-> ReadyOk,
     p |-> [waiting |-> p.waiting \ {item}, handed |-> <<item>> \o p.handed]]

ResponseSink_start_send(self, p, item) ==
    [res |-> ReadyOk, p |-> Pending_insert(p, item)]

\* a flush that fails once the server has exited
ResponseSink_poll_flush_Exited(self) ==
    IF ServerState_get(self.state) = "Exited" THEN ReadyErr ELSE ReadyOk

ResponseSink_poll_flush(self) == ReadyOk

ResponseSink_poll_close(self) == ReadyOk

\* ------------------------------------------------------------------------
\* Initial state: the transport as constructed around a fresh channel
\* ------------------------------------------------------------------------
Init ==
    /\ state = "Initializing"
    /\ chan = [queue |-> <<>>, open |-> TRUE, recv_task |-> FALSE]
    /\ nextId = 0
    /\ pending = [waiting |-> {}, handed |-> <<>>]
    /\ socket = [st |-> "live", rx |-> [inner |-> TRUE],
                 pending |-> PendingRef, state |-> StateRef]
    /\ stream = NoStream("none")
    /\ sink = NoSink("none")
    /\ consumer = "running"
    /\ permit = FALSE
    /\ last = [op |-> "new", res |-> NoResult, arg |-> 0]
    /\ hist = [delivered |-> <<>>, splitQueue |-> <<>>, splitAt |-> 0,
               exitObserved |-> FALSE, exitRefused |-> FALSE, nones |-> 0,
               handedAfterExit |-> 0, unmatched |-> FALSE]

Did(op, res, arg) == last' = [op |-> op, res |-> res, arg |-> arg]

Min(a, b) == IF a < b THEN a ELSE b

\* what one poll of the Stream role adds to the history of the run
Polled(ref, res) ==
    [hist EXCEPT
        !.delivered = IF res.kind = "Some" THEN Append(@, res.item) ELSE @,
        !.exitObserved = @ \/ ServerState_get(ref) = "Exited",
        !.nones = IF res.kind = "None" THEN Min(@ + 1, 2) ELSE @]

\* what one readiness check of the Sink role adds to the history of the run
Checked(ref) ==
    [hist EXCEPT !.exitRefused = @ \/ ServerState_get(ref) = "Exited"]

\* what one insert into the registry adds to the history of the run
Handed(p, item) ==
    [hist EXCEPT
        !.handedAfterExit = IF state = "Exited" THEN @ + 1 ELSE @,
        !.unmatched = @ \/ item \notin p.waiting]

\* ------------------------------------------------------------------------
\* The surrounding runtime
\* ------------------------------------------------------------------------
\* server logic sends a request: registers the call and queues the message
Enqueue ==
    /\ chan.open
    /\ nextId < MaxReq
    /\ nextId' = nextId + 1
    /\ pending' = Pending_wait(pending, nextId + 1)
    /\ chan' = Wake([chan EXCEPT !.queue = Append(@, nextId + 1)])
    /\ consumer' = Woken(chan, consumer)
    /\ Did("enqueue", NoResult, nextId + 1)
    /\ UNCHANGED <<state, socket, stream, sink, permit, hist>>

\* the last Sender goes away: the channel is closed and the receiver woken
DropProducer ==
    /\ chan.open
    /\ chan' = Wake([chan EXCEPT !.open = FALSE])
    /\ consumer' = Woken(chan, consumer)
    /\ Did("drop_producer", NoResult, 0)
    /\ UNCHANGED <<state, nextId, pending, socket, stream, sink, permit, hist>>

\* the server runtime moves the lifecycle on; Exited is final
ServerState_set(s) ==
    /\ state # "Exited"
    /\ s # state
    /\ state' = s
    /\ Did("set_state", NoResult, 0)
    /\ UNCHANGED <<chan, nextId, pending, socket, stream, sink, consumer,
                   permit, hist>>

\* ------------------------------------------------------------------------
\* Operations on the unsplit ClientSocket
\* ------------------------------------------------------------------------
Split ==
    /\ socket.st = "live"
    /\ LET h == ClientSocket_split(socket) IN
        /\ stream' = h.stream
        /\ sink' = h.sink
    /\ socket' = NoSocket("moved")
    /\ permit' = FALSE
    /\ hist' = [hist EXCEPT !.splitQueue = chan.queue,
                            !.splitAt = Len(hist.delivered)]
    /\ Did("split", NoResult, 0)
    /\ UNCHANGED <<state, chan, nextId, pending, consumer>>

SocketPollNext ==
    /\ socket.st = "live"
    /\ LET r == ClientSocket_poll_next(socket, chan) IN
        /\ socket' = [socket EXCEPT !.rx = r.rx]
        /\ chan' = r.ch
        /\ consumer' = IF r.res.kind = "Pending" THEN "suspended" ELSE "running"
        /\ hist' = Polled(socket.state, r.res)
        /\ Did("socket_poll_next", r.res, 0)
    /\ UNCHANGED <<state, nextId, pending, stream, sink, permit>>

SocketSizeHint ==
    /\ socket.st = "live"
    /\ Did("socket_size_hint",
           [kind |-> "Hint", item |-> ClientSocket_size_hint(socket, chan)[1]], 0)
    /\ UNCHANGED <<state, chan, nextId, pending, socket, stream, sink,
                   consumer, permit, hist>>

SocketIsTerminated ==
    /\ socket.st = "live"
    /\ Did("socket_is_terminated",
           [kind |-> IF ClientSocket_is_terminated(socket) THEN "True" ELSE "False",
            item |-> 0], 0)
    /\ UNCHANGED <<state, chan, nextId, pending, socket, stream, sink,
                   consumer, permit, hist>>

SocketPollReady ==
    /\ socket.st = "live"
    /\ LET r == ClientSocket_poll_ready(socket) IN
        /\ permit' = (r = ReadyOk)
        /\ Did("socket_poll_ready", r, 0)
    /\ hist' = Checked(socket.state)
    /\ UNCHANGED <<state, chan, nextId, pending, socket, stream, sink, consumer>>

SocketStartSend(item) ==
    /\ socket.st = "live"
    /\ permit
    /\ Len(pending.handed) < MaxResp
    /\ LET r == ClientSocket_start_send(socket, pending, item) IN
        /\ pending' = r.p
        /\ Did("socket_start_send", r.res, item)
    /\ permit' = FALSE
    /\ hist' = Handed(pending, item)
    /\ UNCHANGED <<state, chan, nextId, socket, stream, sink, consumer>>

SocketPollFlush ==
    /\ socket.st = "live"
    /\ Did("socket_poll_flush", ClientSocket_poll_flush(socket), 0)
    /\ UNCHANGED <<state, chan, nextId, pending, socket, stream, sink,
                   consumer, permit, hist>>

SocketPollClose ==
    /\ socket.st = "live"
    /\ Did("socket_poll_close", ClientSocket_poll_close(socket), 0)
    /\ UNCHANGED <<state, chan, nextId, pending, socket, stream, sink,
                   consumer, permit, hist>>

\* dropping the socket drops its Receiver: the channel is closed and drained
\* a drop of the socket that also shuts the server down
SocketDrop_Exits ==
    /\ socket.st = "live"
    /\ socket' = NoSocket("dropped")
    /\ chan' = [chan EXCEPT !.queue = <<>>, !.open = FALSE]
    /\ permit' = FALSE
    /\ state' = "Exited"
    /\ Did("socket_drop", NoResult, 0)
    /\ UNCHANGED <<nextId, pending, stream, sink, consumer, hist>>

SocketDrop ==
    /\ socket.st = "live"
    /\ socket' = NoSocket("dropped")
    /\ chan' = [chan EXCEPT !.queue = <<>>, !.open = FALSE]
    /\ permit' = FALSE
    /\ Did("socket_drop", NoResult, 0)
    /\ UNCHANGED <<state, nextId, pending, stream, sink, consumer, hist>>

\* ------------------------------------------------------------------------
\* Operations on the RequestStream half
\* ------------------------------------------------------------------------
StreamPollNext ==
    /\ stream.st = "live"
    /\ LET r == RequestStream_poll_next(stream, chan) IN
        /\ stream' = [stream EXCEPT !.rx = r.rx]
        /\ chan' = r.ch
        /\ consumer' = IF r.res.kind = "Pending" THEN "suspended" ELSE "running"
        /\ hist' = Polled(stream.state, r.res)
        /\ Did("stream_poll_next", r.res, 0)
    /\ UNCHANGED <<state, nextId, pending, socket, sink, permit>>

StreamSizeHint ==
    /\ stream.st = "live"
    /\ Did("stream_size_hint",
           [kind |-> "Hint", item |-> RequestStream_size_hint(stream, chan)[1]], 0)
    /\ UNCHANGED <<state, chan, nextId, pending, socket, stream, sink,
                   consumer, permit, hist>>

StreamIsTerminated ==
    /\ stream.st = "live"
    /\ Did("stream_is_terminated",
           [kind |-> IF RequestStream_is_terminated(stream) THEN "True" ELSE "False",
            item |-> 0], 0)
    /\ UNCHANGED <<state, chan, nextId, pending, socket, stream, sink,
                   consumer, permit, hist>>

\* dropping the half drops its Receiver: the channel is closed and drained
StreamDrop ==
    /\ stream.st = "live"
    /\ stream' = NoStream("dropped")
    /\ chan' = [chan EXCEPT !.queue = <<>>, !.open = FALSE]
    /\ Did("stream_drop", NoResult, 0)
    /\ UNCHANGED <<state, nextId, pending, socket, sink, consumer, permit, hist>>

\* ------------------------------------------------------------------------
\* Operations on the ResponseSink half
\* ------------------------------------------------------------------------
SinkPollReady ==
    /\ sink.st = "live"
    /\ LET r == ResponseSink_poll_ready(sink) IN
        /\ permit' = (r = ReadyOk)
        /\ Did("sink_poll_ready", r, 0)
    /\ hist' = Checked(sink.state)
    /\ UNCHANGED <<state, chan, nextId, pending, socket, stream, sink, consumer>>

SinkStartSend(item) ==
    /\ sink.st = "live"
    /\ permit
    /\ Len(pending.handed) < MaxResp
    /\ LET r == ResponseSink_start_send(sink, pending, item) IN
        /\ pending' = r.p
        /\ Did("sink_start_send", r.res, item)
    /\ permit' = FALSE
    /\ hist' = Handed(pending, item)
    /\ UNCHANGED <<state, chan, nextId, socket, stream, sink, consumer>>

SinkPollFlush ==
    /\ sink.st = "live"
    /\ Did("sink_poll_flush", ResponseSink_poll_flush(sink), 0)
    /\ UNCHANGED <<state, chan, nextId, pending, socket, stream, sink,
                   consumer, permit, hist>>

SinkPollClose ==
    /\ sink.st = "live"
    /\ Did("sink_poll_close", ResponseSink_poll_close(sink), 0)
    /\ UNCHANGED <<state, chan, nextId, pending, socket, stream, sink,
                   consumer, permit, hist>>

SinkDrop ==
    /\ sink.st = "live"
    /\ sink' = NoSink("dropped")
    /\ permit' = FALSE
    /\ Did("sink_drop", NoResult, 0)
    /\ UNCHANGED <<state, chan, nextId, pending, socket, stream, consumer, hist>>

\* ------------------------------------------------------------------------
\* Specification
\* ------------------------------------------------------------------------
Next ==
    \/ Enqueue
    \/ DropProducer
    \/ \E s \in State : ServerState_set(s)
    \/ Split
    \/ SocketPollNext
    \/ SocketSizeHint
    \/ SocketIsTerminated
    \/ SocketPollReady
    \/ \E item \in RespIds : SocketStartSend(item)
    \/ SocketPollFlush
    \/ SocketPollClose
    \/ SocketDrop
    \/ StreamPollNext
    \/ StreamSizeHint
    \/ StreamIsTerminated
    \/ StreamDrop
    \/ SinkPollReady
    \/ \E item \in RespIds : SinkStartSend(item)
    \/ SinkPollFlush
    \/ SinkPollClose
    \/ SinkDrop

Spec == Init /\ [][Next]_vars

TypeOK ==
    /\ state \in State
    /\ nextId \in 0 .. MaxReq
    /\ consumer \in {"running", "suspended"}
    /\ permit \in BOOLEAN
    /\ Len(pending.handed) <= MaxResp

\* ------------------------------------------------------------------------
\* Properties
\* ------------------------------------------------------------------------
NextOps == {"socket_poll_next", "stream_poll_next"}
ReadyOps == {"socket_poll_ready", "sink_poll_ready"}
SendOps == {"socket_start_send", "sink_start_send"}
FlushOps == {"socket_poll_flush", "sink_poll_flush",
             "socket_poll_close", "sink_poll_close"}

IsPrefix(a, b) == Len(a) <= Len(b) /\ SubSeq(b, 1, Len(a)) = a

\* the requests the RequestStream half has delivered since the split
StreamDelivered ==
    SubSeq(hist.delivered, hist.splitAt + 1, Len(hist.delivered))

\* C1: while the state has not become Exited, what the RequestStream has
\* delivered and what was queued at the split agree item by item, in queue
\* order, and a poll of the stream that delivers nothing (Pending or
\* end-of-sequence) comes only after all of the requests queued at the
\* split were delivered.
C1_SplitPreservesOrder ==
    (stream.st = "live" /\ state # "Exited") =>
        /\ \/ IsPrefix(StreamDelivered, hist.splitQueue)
           \/ IsPrefix(hist.splitQueue, StreamDelivered)
        /\ (last.op = "stream_poll_next" /\ last.res.kind \in {"Pending", "None"})
              => IsPrefix(hist.splitQueue, StreamDelivered)

C1_Witness ==
    /\ stream.st = "live"
    /\ state # "Exited"
    /\ Len(hist.splitQueue) >= 2
    /\ StreamDelivered = hist.splitQueue
    /\ last.op = "stream_poll_next"
    /\ last.res.kind \in {"Pending", "None"}

\* C2: once a poll_next has run with the state Exited, no later step
\* delivers a request and every later poll_next returns end-of-sequence,
\* whatever is still buffered or enqueued afterwards.
C2_ExitShortCircuits ==
    [][hist.exitObserved =>
          /\ hist'.delivered = hist.delivered
          /\ (last'.op \in NextOps => last'.res = ReadyNone)]_vars

C2_Witness ==
    /\ hist.exitObserved
    /\ chan.queue # <<>>
    /\ last.op \in NextOps
    /\ last.res = ReadyNone

\* C3: a poll_ready called on the unsplit socket or on the ResponseSink
\* while the state is Exited returns the Exited error.
C3_ReadyFailsAfterExit ==
    [][(state = "Exited" /\ last'.op \in ReadyOps) => last'.res = ReadyErr]_vars

C3_Witness ==
    /\ state = "Exited"
    /\ hist.exitRefused
    /\ last.op = "sink_poll_ready"
    /\ last.res = ReadyErr
    /\ stream.st = "live"
    /\ ~Receiver_is_terminated(stream.rx)

\* C4 (as stated): no response is handed to the Pending registry while the
\* state is Exited.
C4_NoInsertAfterExit == hist.handedAfterExit = 0

\* C4 (amended): once the state is Exited no poll_ready grants a new
\* Ready(Ok), and a response reaches the registry only through the one
\* start_send whose poll_ready returned Ok before the state became Exited:
\* at most one such insert, and it uses that Ok up.
C4_InsertAfterExitNeedsEarlierOk ==
    [][state = "Exited" =>
          /\ (permit' => permit)
          /\ (pending'.handed # pending.handed =>
                 permit /\ ~permit' /\ hist.handedAfterExit = 0)]_vars

C4_Witness ==
    /\ state = "Exited"
    /\ hist.handedAfterExit = 1
    /\ last.op \in ReadyOps
    /\ last.res = ReadyErr

\* C5: while the state is not Exited, a start_send appends exactly its
\* item to what the Pending registry was handed, within that step, and
\* returns Ok, whether or not the registry waits for that id.
C5_AcceptedIsHandedOnce ==
    [][(state # "Exited" /\ last'.op \in SendOps) =>
          /\ pending'.handed = Append(pending.handed, last'.arg)
          /\ last'.res = ReadyOk]_vars

C5_Witness ==
    /\ state # "Exited"
    /\ last.op \in SendOps
    /\ hist.unmatched
    /\ last.arg \notin 1 .. nextId
    /\ Len(pending.handed) = 2

\* C6: after some poll_next returned end-of-sequence, every poll_next
\* returns end-of-sequence.
C6_CompletionIsFinal ==
    [][(hist.nones > 0 /\ last'.op \in NextOps) => last'.res = ReadyNone]_vars

C6_Witness ==
    /\ hist.nones >= 2
    /\ chan.queue # <<>>
    /\ state = "Exited"
    /\ last.op \in NextOps

\* C7: when the state becomes Exited while the consumer task is suspended
\* on the stream, that step wakes the task.
C7_ExitWakesConsumer ==
    [][(consumer = "suspended" /\ state # "Exited" /\ state' = "Exited")
          => consumer' = "running"]_vars

\* the state was seen as Exited by a poll of either role
ExitSeen == hist.exitObserved \/ hist.exitRefused

\* C8 (as stated): after the state was observed as Exited, every Sink
\* operation fails with the Exited error and every poll_next returns
\* end-of-sequence.
C8_AllSinkOpsFail ==
    [][ExitSeen =>
          /\ (last'.op \in ReadyOps \cup SendOps \cup FlushOps
                 => last'.res = ReadyErr)
          /\ (last'.op \in NextOps => last'.res = ReadyNone)]_vars

\* C8 (amended): after the state was observed as Exited, every poll_ready
\* fails with the Exited error and every poll_next returns end-of-sequence,
\* while start_send, poll_flush and poll_close still return Ok.
C8_ReadyFailsOthersSucceed ==
    [][ExitSeen =>
          /\ (last'.op \in ReadyOps => last'.res = ReadyErr)
          /\ (last'.op \in SendOps \cup FlushOps => last'.res = ReadyOk)
          /\ (last'.op \in NextOps => last'.res = ReadyNone)]_vars

C8_Witness ==
    /\ ExitSeen
    /\ hist.exitRefused
    /\ last.op \in {"sink_poll_flush", "sink_poll_close"}
    /\ last.res = ReadyOk

\* the producer is gone and everything buffered has been taken
Exhausted == ~chan.open /\ chan.queue = <<>>

\* C9 (as stated): poll_ready of the unsplit socket returns the Exited
\* error exactly when the state is Exited or the producer is dropped with
\* nothing left in the queue.
C9_ReadyFailsIffExhausted ==
    [][last'.op = "socket_poll_ready" =>
          (last'.res = ReadyErr <=> (state = "Exited" \/ Exhausted))]_vars

\* C9 (amended): poll_ready of the unsplit socket returns the Exited error
\* exactly when the state is Exited or the receiver's exhaustion flag is
\* set, which a poll_next sets on finding the queue empty and closed; in
\* every other state it returns Ok.
C9_ReadyFailsIffFlag ==
    [][last'.op = "socket_poll_ready" =>
          /\ last'.res \in {ReadyOk, ReadyErr}
          /\ last'.res = ReadyErr <=>
                (state = "Exited" \/ ClientSocket_is_terminated(socket))]_vars

C9_Witness ==
    /\ Exhausted
    /\ socket.st = "live"
    /\ ~ClientSocket_is_terminated(socket)
    /\ state # "Exited"
    /\ last.op = "socket_poll_ready"
    /\ last.res = ReadyOk

\* what a poll of the stream half returns, from the state and the queue
StreamPollResult ==
    IF state = "Exited" \/ ~stream.rx.inner THEN ReadyNone
    ELSE IF chan.queue # <<>> THEN ReadySome(Head(chan.queue))
    ELSE IF chan.open THEN PollPending
    ELSE ReadyNone

\* C10: with the RequestStream dropped or exhausted and the state not
\* Exited, poll_ready of the ResponseSink returns Ok and start_send hands
\* its item to the registry; with the ResponseSink dropped, poll_next of
\* the RequestStream returns what the state and the queue alone determine.
C10_HalvesIndependent ==
    [][/\ (/\ stream.st = "dropped" \/ Receiver_is_terminated(stream.rx)
           /\ state # "Exited"
           /\ last'.op = "sink_poll_ready") => last'.res = ReadyOk
       /\ (/\ stream.st = "dropped" \/ Receiver_is_terminated(stream.rx)
           /\ state # "Exited"
           /\ last'.op = "sink_start_send")
              => pending'.handed = Append(pending.handed, last'.arg)
       /\ (sink.st = "dropped" /\ last'.op = "stream_poll_next")
              => /\ last'.res = StreamPollResult
                 /\ hist'.delivered =
                       IF StreamPollResult.kind = "Some"
                       THEN Append(hist.delivered, Head(chan.queue))
                       ELSE hist.delivered]_vars

C10_Witness ==
    /\ stream.st = "dropped"
    /\ sink.st = "live"
    /\ state # "Exited"
    /\ last.op = "sink_start_send"
    /\ Len(pending.handed) = 2

TermOps == {"socket_is_terminated", "stream_is_terminated"}

\* the exhaustion flag of the receiver behind the live Stream role
Flag ==
    IF socket.st = "live" THEN Receiver_is_terminated(socket.rx)
    ELSE stream.st = "live" /\ Receiver_is_terminated(stream.rx)

\* C11: is_terminated returns true exactly when the receiver's exhaustion
\* flag is set, whatever the lifecycle state; with the state Exited and the
\* flag not set, poll_next returns end-of-sequence and leaves the flag
\* unset, so is_terminated stays false.
C11_TerminatedTracksFlag ==
    [][/\ last'.op \in TermOps =>
             last'.res.kind = IF Flag THEN "True" ELSE "False"
       /\ (last'.op \in NextOps /\ state = "Exited" /\ ~Flag) =>
             last'.res = ReadyNone /\ ~Flag']_vars

C11_Witness ==
    /\ state = "Exited"
    /\ hist.exitObserved
    /\ hist.nones > 0
    /\ ~Flag
    /\ last.op \in TermOps
    /\ last.res.kind = "False"

\* C12: poll_flush and poll_close return Ready(Ok) in every state and
\* leave the Pending registry, the request queue and the lifecycle state
\* as they were; no Sink operation returns Pending.
C12_FlushCloseAreNoOps ==
    [][/\ last'.op \in FlushOps =>
             /\ last'.res = ReadyOk
             /\ UNCHANGED <<pending, chan, state, socket, stream, sink>>
       /\ last'.op \in ReadyOps \cup SendOps \cup FlushOps =>
             last'.res.kind \in {"Ok", "Err"}]_vars

C12_Witness ==
    /\ state = "Exited"
    /\ socket.st = "live"
    /\ Flag
    /\ last.op = "socket_poll_close"
    /\ last.res = ReadyOk

\* C13: poll_next returns Pending exactly when the queue is empty, its
\* producer is still there and the state is not Exited; otherwise it
\* returns the head of the queue if something is buffered and the state is
\* not Exited, and end-of-sequence in every remaining state.
C13_PendingExactlyWhenEmptyAndOpen ==
    [][last'.op \in NextOps =>
          last'.res =
             IF chan.queue = <<>> /\ ~Exhausted /\ state # "Exited"
             THEN PollPending
             ELSE IF chan.queue # <<>> /\ state # "Exited"
             THEN ReadySome(Head(chan.queue))
             ELSE ReadyNone]_vars

C13_Witness ==
    /\ last.op \in NextOps
    /\ last.res = PollPending
    /\ consumer = "suspended"
    /\ hist.delivered # <<>>

StreamOps == NextOps \cup TermOps
                 \cup {"socket_size_hint", "stream_size_hint", "stream_drop"}

\* C14: each start_send puts its response behind all the responses the
\* Pending registry was handed before, so the registry sees them in the
\* order of the start_send calls; poll_next, size_hint, is_terminated and
\* the drop of the stream leave the registry as it was.
C14_ResponsesInOrder ==
    [][/\ last'.op \in SendOps =>
             /\ Len(pending'.handed) = Len(pending.handed) + 1
             /\ SubSeq(pending'.handed, 1, Len(pending.handed)) = pending.handed
             /\ pending'.handed[Len(pending'.handed)] = last'.arg
       /\ last'.op \in StreamOps => pending' = pending]_vars

C14_Witness ==
    /\ Len(pending.handed) = 2
    /\ pending.handed[1] # pending.handed[2]
    /\ last.op = "sink_start_send"
    /\ last.arg = pending.handed[2]

\* C15: the lifecycle state changes only in a step of the server runtime:
\* no operation on the socket or on its halves, and no drop of them,
\* changes it.
C15_OnlyRuntimeWritesState ==
    [][state' # state => last'.op = "set_state"]_vars

C15_Witness ==
    /\ state = "Running"
    /\ socket.st = "dropped"
    /\ last.op = "socket_drop"
    /\ hist.delivered # <<>>
    /\ pending.handed # <<>>

\* C16: the unsplit socket and its halves are never usable together; a
\* split is possible whenever the socket is live, it moves the receiver to
\* the stream half and the registry reference to the sink half, gives both
\* halves the socket's lifecycle state, and leaves the queue, the registry
\* and the state as they were.
C16_SplitMovesOwnership ==
    /\ [](socket.st = "live" => stream.st = "none" /\ sink.st = "none")
    /\ [](socket.st = "live" => ENABLED Split)
    /\ [](stream.st = "live" => socket.st = "moved" /\ stream.state = StateRef)
    /\ [](sink.st = "live" =>
             /\ socket.st = "moved"
             /\ sink.state = StateRef
             /\ sink.pending = PendingRef)
    /\ [][last'.op = "split" =>
             /\ socket'.st = "moved"
             /\ socket'.rx.inner = FALSE /\ socket'.pending = NoRef
             /\ stream'.st = "live" /\ sink'.st = "live"
             /\ stream'.rx = socket.rx
             /\ stream'.state = socket.state
             /\ sink'.state = socket.state
             /\ sink'.pending = socket.pending
             /\ UNCHANGED <<chan, pending, state>>]_vars

C16_Witness ==
    /\ last.op = "split"
    /\ chan.queue # <<>>
    /\ pending.handed # <<>>
    /\ state = "Running"
    /\ stream.st = "live"
    /\ sink.st = "live"

\* the unsplit socket standing for a stream half, and the other way round
AsSocket(s) == [st |-> "live", rx |-> s.rx, pending |-> PendingRef,
                state |-> s.state]
AsStream(s) == ClientSocket_split(s).stream

\* C17: from every state either of them can be in, the Stream role of the
\* unsplit socket and the RequestStream made from the same receiver and
\* state answer poll_next alike (same result, same receiver and queue
\* afterwards) and report the same is_terminated, so over one sequence of
\* enqueue, producer-drop, exit and poll events they never differ.
C17_StreamRolesEquivalent ==
    /\ socket.st = "live" =>
          /\ ClientSocket_poll_next(socket, chan)
                = RequestStream_poll_next(AsStream(socket), chan)
          /\ ClientSocket_is_terminated(socket)
                = RequestStream_is_terminated(AsStream(socket))
    /\ stream.st = "live" =>
          /\ RequestStream_poll_next(stream, chan)
                = ClientSocket_poll_next(AsSocket(stream), chan)
          /\ RequestStream_is_terminated(stream)
                = ClientSocket_is_terminated(AsSocket(stream))

C17_Witness ==
    /\ stream.st = "live"
    /\ state = "Exited"
    /\ chan.queue # <<>>
    /\ ~Flag
    /\ last.op = "stream_poll_next"
    /\ last.res = ReadyNone
    /\ hist.splitAt > 0

\* the requests enqueued so far, in the order of their enqueueing
Enqueued == [i \in 1 .. nextId |-> i]

\* C18: what the Stream role has delivered is always a prefix of what was
\* enqueued, and a poll_next that finds the state Exited or the exhaustion
\* flag set leaves the queue as it was.
C18_DeliveredIsPrefix ==
    /\ [](IsPrefix(hist.delivered, Enqueued))
    /\ [][(last'.op \in NextOps /\ (state = "Exited" \/ Flag)) =>
             /\ chan' = chan
             /\ hist'.delivered = hist.delivered]_vars

C18_Witness ==
    /\ state = "Exited"
    /\ last.op \in NextOps
    /\ last.res = ReadyNone
    /\ chan.queue # <<>>
    /\ hist.delivered # <<>>
    /\ Len(hist.delivered) < nextId

\* ------------------------------------------------------------------------
\* Specification with a consumer that keeps polling
\* ------------------------------------------------------------------------
\* the consumer task, when runnable, polls whichever Stream role is live
ConsumerPoll == consumer = "running" /\ (SocketPollNext \/ StreamPollNext)

\* every step but start_send: an accept writes the Pending registry and
\* uses up the caller's Ready(Ok), which no poll of either role reads
NextNoSend ==
    \/ Enqueue
    \/ DropProducer
    \/ \E s \in State : ServerState_set(s)
    \/ Split
    \/ SocketPollNext
    \/ SocketSizeHint
    \/ SocketIsTerminated
    \/ SocketPollReady
    \/ SocketPollFlush
    \/ SocketPollClose
    \/ SocketDrop
    \/ StreamPollNext
    \/ StreamSizeHint
    \/ StreamIsTerminated
    \/ StreamDrop
    \/ SinkPollReady
    \/ SinkPollFlush
    \/ SinkPollClose
    \/ SinkDrop

FairSpec == Init /\ [][NextNoSend]_vars /\ WF_vars(ConsumerPoll)

\* a Stream role is live on a queue whose producer is gone
ProducerGone ==
    /\ socket.st = "live" \/ stream.st = "live"
    /\ ~chan.open

\* C19: with the producer dropped and a consumer that keeps polling, the
\* stream gets to the point where every enqueued request was delivered and
\* the exhaustion flag is set, unless the state becomes Exited or the
\* stream is dropped first; from then on the flag stays set, is_terminated
\* returns true and poll_ready of the unsplit socket returns the Exited
\* error, also while the state is not Exited.
C19_DrainsThenTerminates ==
    /\ ProducerGone ~>
          \/ Flag /\ hist.delivered = Enqueued
          \/ state = "Exited"
          \/ ~(socket.st = "live" \/ stream.st = "live")
    /\ [][Flag =>
             /\ socket'.st = "live" \/ stream'.st = "live" => Flag'
             /\ last'.op \in TermOps => last'.res.kind = "True"
             /\ last'.op \in NextOps => last'.res = ReadyNone
             /\ last'.op = "socket_poll_ready" => last'.res = ReadyErr]_vars

C19_Witness ==
    /\ Flag
    /\ socket.st = "live"
    /\ state # "Exited"
    /\ hist.delivered = Enqueued
    /\ nextId = 2
    /\ last.op = "socket_poll_ready"
    /\ last.res = ReadyErr

====
